---- MODULE Spec2Model ----
(***************************************************************************)
(* which-cmd: the node tree, the command composer and the navigation loop  *)
(* of run_tui (src/src/tui.rs), which works on ConfigNode values           *)
(* (src/src/config_node.rs).                                               *)
(*                                                                         *)
(* A Rust String is a sequence of one-character strings, so that joining,  *)
(* prefixing and empty tokens are computed and not assumed.  Option<T> is  *)
(* a sequence of length at most one: None is << >>, Some(x) is <<x>>.      *)
(* Vec indices keep their Rust value (0-based); p[l + 1] reads path[l].    *)
(* Terminal output is not part of the state, the calls of Terminal::setup  *)
(* and Terminal::teardown are, with the event whose handler makes them;    *)
(* terminal I/O is taken to succeed.                                       *)
(***************************************************************************)
EXTENDS Integers, Sequences, FiniteSets, TLC

VARIABLES
    path,             \* run_tui: let mut path: Vec<ConfigNode>
    loop_node_index,  \* run_tui: let mut loop_node_index: Option<usize>
    outcome,          \* where run_tui is: "pending" in the loop, or how it left
    result,           \* the String run_tui returned (<< >> until it returns)
    opts,             \* Options handed to run_tui
    event,            \* the event the last iteration read
    config,           \* Config::from_contents: the contents read and what came of them
    search,           \* the Vec<SearchNode> last computed and the entry picked from it
    dialog            \* Input::interact: input_type, input_str and how the call left

vars == <<path, loop_node_index, outcome, result, opts, event, config, search, dialog>>

\* what the navigation loop never writes
outside == <<config, search, dialog>>

----------------------------------------------------------------------------
(* Bounds of the model *)

\* longest path the key handler is allowed to build
MaxPath == 5
\* longest path handed to the pure functions
MaxLen == 3

----------------------------------------------------------------------------
(* Option and String helpers *)

None == << >>
Some(x) == <<x>>
is_some(o) == Len(o) > 0
unwrap(o) == o[1]
unwrap_or(o, d) == IF is_some(o) THEN o[1] ELSE d

SPACE == <<" ">>

\* constants.rs / tui.rs
CHOICE_KEY == <<"[", "c", "h", "o", "i", "c", "e", "]">>
INPUT_KEY == <<"[", "i", "n", "p", "u", "t", "]">>
IMMEDIATE_PREFIX ==
    <<"_", "_", "I", "M", "M", "E", "D", "I", "A", "T", "E", "_", "_">>

\* the parts run together with no separator
RECURSIVE join_no_sep(_, _)
join_no_sep(parts, sep) ==
    IF Len(parts) = 0 THEN << >> ELSE parts[1] \o join_no_sep(Tail(parts), sep)

\* [T]::join(sep): the parts with sep between each two neighbours
RECURSIVE join(_, _)
join(parts, sep) ==
    IF Len(parts) = 0 THEN << >>
    ELSE IF Len(parts) = 1 THEN parts[1]
    ELSE parts[1] \o sep \o join(Tail(parts), sep)

DigitChars == <<"0", "1", "2", "3", "4", "5", "6", "7", "8", "9">>

RECURSIVE Digits(_)
Digits(n) ==
    IF n < 10 THEN <<DigitChars[n + 1]>>
    ELSE Digits(n \div 10) \o <<DigitChars[(n % 10) + 1]>>

\* i32::to_string
I32ToString(n) == IF n < 0 THEN <<"-">> \o Digits(0 - n) ELSE Digits(n)

I32_MAX == 2147483647
I32_MIN == (0 - I32_MAX) - 1

is_ascii_digit(c) == \E k \in 1..Len(DigitChars) : DigitChars[k] = c

to_digit(c) == (CHOOSE k \in 1..Len(DigitChars) : DigitChars[k] = c) - 1

\* the digit loop of i32::from_str for a number without sign: checked_mul(10)
\* then checked_add(digit); None on a character that is no digit or on overflow
RECURSIVE parse_positive(_, _)
parse_positive(digits, acc) ==
    IF Len(digits) = 0 THEN Some(acc)
    ELSE IF ~is_ascii_digit(digits[1]) THEN None
    ELSE IF acc > I32_MAX \div 10 THEN None
    ELSE IF acc * 10 > I32_MAX - to_digit(digits[1]) THEN None
    ELSE parse_positive(Tail(digits), acc * 10 + to_digit(digits[1]))

\* the digit loop after a minus sign: checked_mul(10) then checked_sub(digit)
RECURSIVE parse_negative(_, _)
parse_negative(digits, acc) ==
    IF Len(digits) = 0 THEN Some(acc)
    ELSE IF ~is_ascii_digit(digits[1]) THEN None
    ELSE IF acc < 0 - (I32_MAX \div 10) THEN None
    ELSE IF acc * 10 < I32_MIN + to_digit(digits[1]) THEN None
    ELSE parse_negative(Tail(digits), acc * 10 - to_digit(digits[1]))

\* str::parse::<i32>: Empty and a lone sign are errors
parse_i32(str) ==
    IF Len(str) = 0 THEN None
    ELSE IF str[1] = "-"
    THEN IF Len(str) = 1 THEN None ELSE parse_negative(Tail(str), 0)
    ELSE parse_positive(str, 0)

----------------------------------------------------------------------------
(* The configuration as written by the user: one helper record per node.   *)
(* keys holds the positions of the children in RawTree.                    *)

H(key, name, value, flags, keys, choices, input) ==
    [key |-> <<key>>, name |-> name, value |-> value,
     immediate |-> "immediate" \in flags,
     fleeting |-> "fleeting" \in flags,
     anchor |-> "anchor" \in flags,
     loop |-> "loop" \in flags,
     repeatable |-> "repeatable" \in flags,
     keys |-> keys, choices |-> choices, input |-> input]

GIT == <<"g", "i", "t">>
STATUS == <<"s", "t", "a", "t", "u", "s">>
GH == <<"g", "h">>
PR == <<"p", "r">>

RawTree == <<
    (* 1 *) H("g", None, Some(GIT), {}, <<2, 3, 4, 14>>, << >>, None),
    (* 2 *) H("s", None, Some(STATUS), {}, << >>, << >>, None),
    (* 3 *) H("h", Some(<<"G", "H">>), Some(GH), {"anchor"}, <<5>>, << >>, None),
    (* 4 *) H("o", None, Some(<<"-", "o">>), {"immediate"}, << >>,
              <<(<<"x">>), (<<"y">>)>>, None),
    (* 5 *) H("p", None, Some(PR), {"immediate"}, << >>, << >>, None),
    (* 6 *) H("a", None, Some(<<"A">>), {"loop"}, <<7, 8, 9, 11>>, << >>, None),
    (* 7 *) H("b", None, Some(<<"B">>), {"repeatable"}, << >>, << >>, None),
    (* 8 *) H("c", None, Some(<<"C">>), {}, << >>, << >>, None),
    (* 9 *) H("d", None, Some(<<"D">>), {}, <<10>>, << >>, None),
    (* 10 *) H("e", None, Some(<<"E">>), {}, << >>, << >>, None),
    (* 11 *) H("i", None, Some(<<"I">>), {"loop"}, <<12>>, << >>, None),
    (* 12 *) H("j", None, Some(<<"J">>), {"immediate"}, << >>, << >>, None),
    (* 13 *) H("l", None, Some(<<"L">>), {"loop"}, << >>, << >>, None),
    (* 14 *) H("f", Some(<<"F">>), None, {"fleeting"}, <<15, 16, 17>>, << >>, None),
    (* 15 *) H("m", None, Some(<<"M">>), {}, << >>, << >>, None),
    (* 16 *) H("t", None, Some(<<"T">>), {}, << >>, << >>, Some("Text")),
    (* 17 *) H("n", None, Some(<<"N">>), {"fleeting"}, << >>, << >>, Some("Number")),
    (* 18 *) H("k", Some(<<"K">>), None, {"fleeting"}, <<19>>, << >>, None),
    (* 19 *) H("q", Some(<<"Q">>), None, {"fleeting"}, <<20>>, << >>, None),
    (* 20 *) H("r", None, Some(<<"R">>), {}, << >>, << >>, None),
    (* 21 *) H("u", None, Some(<<"U">>), {"loop", "fleeting"}, <<22>>, << >>, None),
    (* 22 *) H("w", None, Some(<<"W">>), {}, << >>, << >>, None)
>>

\* the top-level keys of the configuration file
RawRoots == <<1, 6, 13, 18, 21>>

RawParent(i) ==
    IF \E j \in 1..Len(RawTree) : \E k \in 1..Len(RawTree[j].keys) : RawTree[j].keys[k] = i
    THEN Some(CHOOSE j \in 1..Len(RawTree) :
                  \E k \in 1..Len(RawTree[j].keys) : RawTree[j].keys[k] = i)
    ELSE None

----------------------------------------------------------------------------
(* ConfigNode *)

\* ConfigNode::deserialize: the flags are copied as written
ConfigNodeDeserialize(helper) ==
    LET value == unwrap_or(helper.value, << >>)
        name == unwrap_or(helper.name, value)
    IN  [id |-> << >>,
         key |-> helper.key,
         name |-> name,
         value |-> value,
         is_immediate |-> helper.immediate,
         is_fleeting |-> helper.fleeting,
         is_anchor |-> helper.anchor,
         is_loop |-> helper.loop,
         is_repeatable |-> helper.repeatable,
         keys |-> helper.keys,
         choices |-> helper.choices,
         input_type |-> helper.input]

\* Node::deserialize: a node with choices or input is made fleeting
NodeDeserialize(helper) ==
    [ConfigNodeDeserialize(helper) EXCEPT
        !.is_fleeting = helper.fleeting \/ is_some(helper.input)
                        \/ Len(helper.choices) > 0]

\* the id of a node taken to be its key
id_from_parent_key(parent_id, key) == key

id_from_parent(parent_id, key) ==
    IF parent_id # << >> THEN parent_id \o key ELSE key

has_choices(n) == Len(n.choices) > 0

\* a leaf test that does not look at the input request
is_leaf_no_input(n) == Len(n.keys) = 0 /\ ~has_choices(n)

is_leaf(n) == Len(n.keys) = 0 /\ ~has_choices(n) /\ ~is_some(n.input_type)

\* a selection that inherits the immediate flag of its node
with_selection_immediate(n, choice) ==
    [id |-> id_from_parent(n.id, CHOICE_KEY),
     key |-> CHOICE_KEY,
     name |-> n.choices[choice + 1],
     value |-> n.choices[choice + 1],
     is_immediate |-> n.is_immediate,
     is_fleeting |-> FALSE,
     is_anchor |-> FALSE,
     is_loop |-> FALSE,
     is_repeatable |-> FALSE,
     keys |-> << >>,
     choices |-> << >>,
     input_type |-> None]

\* a selection that always takes the first choice
with_selection_first(n, choice) ==
    [id |-> id_from_parent(n.id, CHOICE_KEY),
     key |-> CHOICE_KEY,
     name |-> n.choices[1],
     value |-> n.choices[1],
     is_immediate |-> FALSE,
     is_fleeting |-> FALSE,
     is_anchor |-> FALSE,
     is_loop |-> FALSE,
     is_repeatable |-> FALSE,
     keys |-> << >>,
     choices |-> << >>,
     input_type |-> None]

with_selection(n, choice) ==
    LET selection == n.choices[choice + 1]
    IN  [id |-> id_from_parent(n.id, CHOICE_KEY),
         key |-> CHOICE_KEY,
         name |-> selection,
         value |-> selection,
         is_immediate |-> FALSE,
         is_fleeting |-> FALSE,
         is_anchor |-> FALSE,
         is_loop |-> FALSE,
         is_repeatable |-> FALSE,
         keys |-> << >>,
         choices |-> << >>,
         input_type |-> None]

\* Node::with_selection: self.choices.get(choice)? gives None for an index
\* that is not in the list
Node_with_selection(n, choice) ==
    IF choice < Len(n.choices) THEN Some(with_selection(n, choice)) ELSE None

with_input(n, input) ==
    [id |-> id_from_parent(n.id, input),
     key |-> INPUT_KEY,
     name |-> input,
     value |-> input,
     is_immediate |-> FALSE,
     is_fleeting |-> FALSE,
     is_anchor |-> FALSE,
     is_loop |-> FALSE,
     is_repeatable |-> FALSE,
     keys |-> << >>,
     choices |-> << >>,
     input_type |-> None]

\* Config::from_contents, set_id: id = id of the parent followed by the key
RECURSIVE IdOf(_)
IdOf(i) ==
    LET parent == RawParent(i)
    IN  id_from_parent(IF is_some(parent) THEN IdOf(unwrap(parent)) ELSE << >>,
                       RawTree[i].key)

\* the loaded tree the session runs on
Tree ==
    [i \in 1..Len(RawTree) |->
        [ConfigNodeDeserialize(RawTree[i]) EXCEPT !.id = IdOf(i)]]

\* the Vec<ConfigNode> behind a list of positions
Nodes(ixs) == [k \in 1..Len(ixs) |-> Tree[ixs[k]]]

----------------------------------------------------------------------------
(* path.rs / tui.rs: the pure functions on a path *)

Pop(p) == SubSeq(p, 1, Len(p) - 1)
Last(p) == p[Len(p)]

\* popping one fleeting entry and no more
pop_one_fleeting(p) ==
    IF Len(p) > 0 /\ Last(p).is_fleeting THEN Pop(p) ELSE p

RECURSIVE pop_to_first_non_is_fleeting(_)
pop_to_first_non_is_fleeting(p) ==
    IF Len(p) = 0 THEN p
    ELSE IF ~Last(p).is_fleeting THEN p
    ELSE pop_to_first_non_is_fleeting(Pop(p))

\* the first loop of compose_command: i runs over the path, start_index follows
RECURSIVE start_index_loop(_, _, _)
start_index_loop(p, i, start_index) ==
    IF i >= Len(p) THEN start_index
    ELSE start_index_loop(p, i + 1, IF p[i + 1].is_anchor THEN i ELSE start_index)

\* composing from the first anchor instead of the last
compose_first_anchor(p) ==
    LET A == {i \in 0..(Len(p) - 1) : p[i + 1].is_anchor}
        start_index == IF A = {} THEN 0 ELSE CHOOSE i \in A : \A j \in A : i <= j
    IN  join([k \in 1..(Len(p) - start_index) |-> p[start_index + k].value], SPACE)

compose_command(p) ==
    LET start_index == start_index_loop(p, 0, 0)
        command_parts == [k \in 1..(Len(p) - start_index) |-> p[start_index + k].value]
    IN  join(command_parts, SPACE)

----------------------------------------------------------------------------
(* run_tui: the navigation loop *)

\* Options { print_immediate_tag }
Options == [print_immediate_tag : BOOLEAN]

\* what the Text prompt may hand back
TextInputs == {<<"x">>, <<"-", "v">>}
\* what may be typed into the Number prompt (Input::<i32>) and parses
NumberTexts == {<<"-", "1">>, <<"0">>, <<"1", "2">>, <<"0", "0", "7">>}
\* what the Number prompt (Input::<i32>) may hand back
NumberInputs == {unwrap(parse_i32(text)) : text \in NumberTexts}

\* the characters a key event may carry: every key of the tree, the search
\* character and one character bound nowhere
Chars == {RawTree[i].key[1] : i \in 1..Len(RawTree)} \cup {"/", "z"}

\* an event read, with what a dialog opened by its handler was answered:
\* the index selected, or the text typed
Ev(code, c) ==
    [code |-> code, c |-> c, selection |-> None, typed |-> None, terminal |-> << >>]

\* the calls of Terminal::setup and Terminal::teardown made for the event, in
\* their order
SETUP == "setup"
TEARDOWN == "teardown"
Called(e, calls) == [e EXCEPT !.terminal = calls]

\* no file read, no search made, no input prompt opened
NoConfig == [status |-> "unread"]
NoSearch == [options |-> << >>, picked |-> None]
NoDialog == [status |-> "closed"]

\* the menu of the iteration: the keys of the loop node when one is recorded,
\* else the keys of the last path entry, else the top-level keys
\* let current_nodes = if let Some(l) = loop_node_index { path[l].keys } ...
menu(p, index) ==
    IF is_some(index) THEN Nodes(p[unwrap(index) + 1].keys)
    ELSE IF Len(p) > 0 THEN Nodes(Last(p).keys)
    ELSE Nodes(RawRoots)

current_nodes == menu(path, loop_node_index)

\* Iterator::find: the first entry whose key is the character
find(nodes, c) ==
    LET hits == {k \in 1..Len(nodes) : nodes[k].key = <<c>>}
    IN  IF hits = {} THEN None
        ELSE Some(nodes[CHOOSE k \in hits : \A j \in hits : k <= j])

\* the tag given whatever the caller asked for
Tagged_IgnoreOpts(command, node) ==
    IF node.is_immediate THEN IMMEDIATE_PREFIX \o SPACE \o command ELSE command

\* the value run_tui returns for a command decided by node
Tagged(command, node) ==
    IF opts.print_immediate_tag /\ node.is_immediate
    THEN IMMEDIATE_PREFIX \o SPACE \o command
    ELSE command

Return(how, value) ==
    /\ outcome' = how
    /\ result' = value

Init ==
    /\ path = << >>
    /\ loop_node_index = None
    /\ outcome = "pending"
    /\ result = << >>
    /\ opts \in Options
    /\ event = Called(Ev("None", ""), <<SETUP>>)
    /\ config = NoConfig
    /\ search = NoSearch
    /\ dialog = NoDialog

\* Esc handing back what was composed so far
EscKey_Compose ==
    /\ outcome = "pending"
    /\ event' = Called(Ev("Esc", ""), <<TEARDOWN>>)
    /\ Return("cancelled", compose_command(path))
    /\ UNCHANGED <<path, loop_node_index, opts>>
    /\ UNCHANGED outside

\* KeyCode::Esc
EscKey ==
    /\ outcome = "pending"
    /\ event' = Called(Ev("Esc", ""), <<TEARDOWN>>)
    /\ Return("cancelled", << >>)
    /\ UNCHANGED <<path, loop_node_index, opts>>
    /\ UNCHANGED outside

\* the leaf branch of a matched key with the wrong test: confirms under a loop
LeafSelected_IgnoreLoop(pushed, new_loop, node) ==
    /\ path' = pushed
    /\ Return("confirmed", Tagged(compose_command(pushed), node))

\* the leaf branch composing before the push
LeafSelected_ComposeOld(pushed, new_loop, node) ==
    IF ~is_some(new_loop)
    THEN /\ path' = pushed
         /\ Return("confirmed", Tagged(compose_command(Pop(pushed)), node))
    ELSE /\ path' = pushed
         /\ UNCHANGED <<outcome, result>>

\* if node.is_leaf() { if !loop_node_index.is_some() { return ... } }
LeafSelected(pushed, new_loop, node) ==
    IF ~is_some(new_loop)
    THEN /\ path' = pushed
         /\ Return("confirmed", Tagged(compose_command(pushed), node))
    ELSE /\ path' = pushed
         /\ UNCHANGED <<outcome, result>>

\* KeyCode::Char(c), c bound in the menu to node.  The dialogs are blocking
\* calls inside the handler: FuzzySelect::interact accepts no Esc and hands
\* back an index of node.choices; Input::interact hands back the text or the
\* parsed i32.
KeyMatched(c, node) ==
    LET pushed == Append(path, node)
        new_loop == IF node.is_loop THEN Some(Len(pushed) - 1) ELSE loop_node_index
    IN  /\ loop_node_index' = new_loop
        /\ IF is_leaf(node)
           THEN /\ LeafSelected(pushed, new_loop, node)
                /\ event' = Called(Ev("Char", c),
                                   IF outcome' = "confirmed" THEN <<TEARDOWN>>
                                   ELSE << >>)
           ELSE IF has_choices(node)
           THEN /\ \E selection \in 0..(Len(node.choices) - 1) :
                       /\ event' = [Called(Ev("Char", c), <<TEARDOWN, SETUP>>)
                                        EXCEPT !.selection = Some(selection)]
                       /\ path' = Append(pushed, with_selection(node, selection))
                /\ UNCHANGED <<outcome, result>>
           ELSE IF is_some(node.input_type)
           THEN /\ IF unwrap(node.input_type) = "Text"
                   THEN \E input \in TextInputs :
                            /\ event' = [Called(Ev("Char", c),
                                                 <<TEARDOWN, SETUP, SETUP>>)
                                             EXCEPT !.typed = Some(input)]
                            /\ path' = Append(pushed, with_input(node, input))
                   ELSE \E text \in NumberTexts :
                            LET input == unwrap(parse_i32(text))
                            IN  /\ event' = [Called(Ev("Char", c),
                                                     <<TEARDOWN, SETUP, SETUP>>)
                                                 EXCEPT !.typed = Some(text)]
                                /\ path' = Append(pushed,
                                                  with_input(node, I32ToString(input)))
                /\ UNCHANGED <<outcome, result>>
           ELSE /\ event' = Ev("Char", c)
                /\ path' = pushed
                /\ UNCHANGED <<outcome, result>>

\* an unbound key taken as Backspace
InvalidKey_Pops(c) ==
    /\ path' = Pop(path)
    /\ UNCHANGED <<loop_node_index, outcome, result>>

\* KeyCode::Char(c), c bound nowhere in the menu: a notice for 750 ms
InvalidKey(c) == UNCHANGED <<path, loop_node_index, outcome, result>>

\* KeyCode::Char(c)
KeyChar ==
    /\ outcome = "pending"
    /\ Len(path) + 2 <= MaxPath
    /\ \E c \in Chars :
        LET found == find(current_nodes, c)
        IN  IF is_some(found)
            THEN KeyMatched(c, unwrap(found))
            ELSE /\ event' = Ev("Char", c)
                 /\ InvalidKey(c)
    /\ UNCHANGED opts
    /\ UNCHANGED outside

\* Backspace leaving the loop index as it was
Backspace_KeepsIndex ==
    /\ outcome = "pending"
    /\ event' = Ev("Backspace", "")
    /\ IF Len(path) > 0
       THEN path' = pop_to_first_non_is_fleeting(Pop(path))
       ELSE UNCHANGED path
    /\ UNCHANGED <<loop_node_index, outcome, result, opts>>
    /\ UNCHANGED outside

\* KeyCode::Backspace
Backspace ==
    /\ outcome = "pending"
    /\ event' = Ev("Backspace", "")
    /\ IF Len(path) > 0
       THEN LET popped == pop_to_first_non_is_fleeting(Pop(path))
            IN  /\ path' = popped
                /\ loop_node_index' =
                      IF is_some(loop_node_index)
                         /\ Len(popped) <= unwrap(loop_node_index)
                      THEN None
                      ELSE loop_node_index
       ELSE UNCHANGED <<path, loop_node_index>>
    /\ UNCHANGED <<outcome, result, opts>>
    /\ UNCHANGED outside

\* Enter accepted on a leaf only
EnterKey_LeafOnly ==
    /\ outcome = "pending"
    /\ event' = Called(Ev("Enter", ""), <<TEARDOWN>>)
    /\ IF Len(path) > 0
       THEN IF is_leaf(Last(path))
            THEN Return("confirmed", Tagged(compose_command(path), Last(path)))
            ELSE UNCHANGED <<outcome, result>>
       ELSE Return("panicked", << >>)
    /\ UNCHANGED <<path, loop_node_index, opts>>
    /\ UNCHANGED outside

\* KeyCode::Enter: compose, then path.last().unwrap() (a panic on the empty path)
EnterKey ==
    /\ outcome = "pending"
    /\ event' = Called(Ev("Enter", ""), <<TEARDOWN>>)
    /\ IF Len(path) > 0
       THEN Return("confirmed", Tagged(compose_command(path), Last(path)))
       ELSE Return("panicked", << >>)
    /\ UNCHANGED <<path, loop_node_index, opts>>
    /\ UNCHANGED outside

\* every other key code and every event that is no key event
OtherEvent ==
    /\ outcome = "pending"
    /\ event' = Ev("Other", "")
    /\ UNCHANGED <<path, loop_node_index, outcome, result, opts>>
    /\ UNCHANGED outside

Next == EscKey \/ KeyChar \/ Backspace \/ EnterKey \/ OtherEvent

Spec == Init /\ [][Next]_vars

\* the loop fed with character keys only
NextKeys == KeyChar

SpecKeys == Init /\ [][NextKeys]_vars

----------------------------------------------------------------------------
(* The pure functions of path.rs on arbitrary paths: the path is drawn from *)
(* every sequence of at most MaxLen test nodes, then one function is        *)
(* applied to it.                                                           *)

\* a node literal as the tests of path.rs write them
TestNode(value, anchor, fleeting) ==
    [id |-> value, key |-> value, name |-> value, value |-> value,
     is_immediate |-> FALSE, is_fleeting |-> fleeting, is_anchor |-> anchor,
     is_loop |-> FALSE, is_repeatable |-> FALSE,
     keys |-> << >>, choices |-> << >>, input_type |-> None]

TestValues == {<< >>, GIT, <<"-", "a">>}

TestNodes == {TestNode(v, a, f) : v \in TestValues, a \in BOOLEAN, f \in BOOLEAN}

TestPaths == UNION {[1..n -> TestNodes] : n \in 0..MaxLen}

InitPure ==
    /\ path \in TestPaths
    /\ loop_node_index = None
    /\ outcome = "pending"
    /\ result = << >>
    /\ opts = [print_immediate_tag |-> FALSE]
    /\ event = Ev("None", "")
    /\ config = NoConfig
    /\ search = NoSearch
    /\ dialog = NoDialog

\* let command = compose_command(&path)
ComposeStep ==
    /\ event.code = "None"
    /\ event' = Ev("compose", "")
    /\ result' = compose_command(path)
    /\ UNCHANGED <<path, loop_node_index, outcome, opts>>
    /\ UNCHANGED outside

\* pop_to_first_non_is_fleeting(&mut path)
PopStep ==
    /\ event.code = "None"
    /\ event' = Ev("pop", "")
    /\ path' = pop_to_first_non_is_fleeting(path)
    /\ UNCHANGED <<loop_node_index, outcome, result, opts>>
    /\ UNCHANGED outside

NextPure == ComposeStep \/ PopStep

SpecPure == InitPure /\ [][NextPure]_vars

----------------------------------------------------------------------------
(* input.rs: Input::interact, the prompt for a Text or a Number.  The call  *)
(* reads key events until it returns Ok(Some(text)), Ok(None) or Err(..).   *)

\* longest buffer of a Number prompt: one more digit than i32 can hold
MaxNumber == 10
\* longest buffer of a Text prompt
MaxText == 3

\* the characters typed into a prompt
InputChars == {"-", "2", "9", "x"}

Prompt(input_type, input_str, status, value) ==
    [input_type |-> input_type, input_str |-> input_str,
     status |-> status, value |-> value]

INVALID_NUMBER == <<"Invalid number">>

\* what the prompt leaves alone
session == <<path, loop_node_index, outcome, result, opts, config, search>>

\* Input::new(input_type, name).interact(terminal): let mut input_str = String::new()
InitInput ==
    /\ path = << >>
    /\ loop_node_index = None
    /\ outcome = "pending"
    /\ result = << >>
    /\ opts = [print_immediate_tag |-> FALSE]
    /\ event = Ev("None", "")
    /\ config = NoConfig
    /\ search = NoSearch
    /\ \E input_type \in {"Text", "Number"} :
           dialog = Prompt(input_type, << >>, "open", << >>)

\* KeyCode::Enter
InputEnter ==
    /\ dialog.status = "open"
    /\ event' = Ev("Enter", "")
    /\ dialog' =
          IF dialog.input_type = "Number"
          THEN IF dialog.input_str = << >>
               THEN [dialog EXCEPT !.status = "Ok(None)"]
               ELSE IF is_some(parse_i32(dialog.input_str))
               THEN [dialog EXCEPT !.status = "Ok(Some)", !.value = dialog.input_str]
               ELSE [dialog EXCEPT !.status = "Err", !.value = INVALID_NUMBER]
          ELSE [dialog EXCEPT !.status = "Ok(Some)", !.value = dialog.input_str]
    /\ UNCHANGED session

\* KeyCode::Esc
InputEsc ==
    /\ dialog.status = "open"
    /\ event' = Ev("Esc", "")
    /\ dialog' = [dialog EXCEPT !.status = "Ok(None)"]
    /\ UNCHANGED session

\* a prompt whose Number takes a minus sign anywhere
InputChar_AnySign ==
    /\ dialog.status = "open"
    /\ Len(dialog.input_str) <
          (IF dialog.input_type = "Number" THEN MaxNumber ELSE MaxText)
    /\ \E c \in InputChars :
        /\ event' = Ev("Char", c)
        /\ dialog' =
              IF dialog.input_type = "Number"
              THEN IF is_ascii_digit(c) \/ c = "-"
                   THEN [dialog EXCEPT !.input_str = Append(@, c)]
                   ELSE dialog
              ELSE [dialog EXCEPT !.input_str = Append(@, c)]
    /\ UNCHANGED session

\* KeyCode::Char(c): a Number takes digits, and a minus sign in front only
InputChar ==
    /\ dialog.status = "open"
    /\ Len(dialog.input_str) <
          (IF dialog.input_type = "Number" THEN MaxNumber ELSE MaxText)
    /\ \E c \in InputChars :
        /\ event' = Ev("Char", c)
        /\ dialog' =
              IF dialog.input_type = "Number"
              THEN IF is_ascii_digit(c) \/ (c = "-" /\ dialog.input_str = << >>)
                   THEN [dialog EXCEPT !.input_str = Append(@, c)]
                   ELSE dialog
              ELSE [dialog EXCEPT !.input_str = Append(@, c)]
    /\ UNCHANGED session

\* KeyCode::Backspace
InputBackspace ==
    /\ dialog.status = "open"
    /\ event' = Ev("Backspace", "")
    /\ dialog' = IF dialog.input_str # << >>
                 THEN [dialog EXCEPT !.input_str = Pop(@)]
                 ELSE dialog
    /\ UNCHANGED session

NextInput == InputEnter \/ InputEsc \/ InputChar \/ InputBackspace

SpecInput == InitInput /\ [][NextInput]_vars

----------------------------------------------------------------------------
(* config.rs: Config::from_contents on the contents of a configuration     *)
(* file.  The contents are one helper record per node, as for RawTree; a    *)
(* key is any String.                                                       *)

\* the keys written in a file: two single characters and one longer key
LoadKeys == {<<"a">>, <<"b">>, <<"a", "b">>, <<"/">>}

\* the files read share one shape: two top-level nodes, the first with two
\* children, the first of them with one child
LoadRoots == <<1, 2>>
LoadShape == <<(<<3, 4>>), << >>, (<<5>>), << >>, << >>>>
LoadValues == <<"A", "B", "C", "D", "E">>

\* node i of a file as written when nothing is special about it
BaseNode(i, key) ==
    [H("", None, Some(<<LoadValues[i]>>), IF i = 1 THEN {"loop"} ELSE {},
       LoadShape[i], << >>, None) EXCEPT !.key = key]

\* what one node of a file may have instead
LoadMods == {"plain", "name_only", "neither", "empty_name", "empty_value",
             "choices", "input", "choices_input", "loop", "anchor"}

Modify(h, m) ==
    CASE m = "plain" -> h
      [] m = "name_only" -> [h EXCEPT !.name = Some(<<"N">>), !.value = None]
      [] m = "neither" -> [h EXCEPT !.name = None, !.value = None]
      [] m = "empty_name" -> [h EXCEPT !.name = Some(<< >>)]
      [] m = "empty_value" -> [h EXCEPT !.name = None, !.value = Some(<< >>)]
      [] m = "choices" -> [h EXCEPT !.choices = <<(<<"x">>)>>]
      [] m = "input" -> [h EXCEPT !.input = Some("Number")]
      [] m = "choices_input" ->
            [h EXCEPT !.choices = <<(<<"x">>)>>, !.input = Some("Text")]
      [] m = "loop" -> [h EXCEPT !.loop = TRUE]
      [] m = "anchor" -> [h EXCEPT !.anchor = TRUE]

\* the files read
RawConfigs ==
    {[i \in 1..Len(LoadShape) |->
         IF i = n THEN Modify(BaseNode(i, ks[i]), m) ELSE BaseNode(i, ks[i])] :
        ks \in [1..Len(LoadShape) -> LoadKeys],
        n \in 1..Len(LoadShape),
        m \in LoadMods}

NAME_EMPTY == <<"name must not be empty">>
ONLY_ONE == <<"node must have only one of choices, input, or keys: ">>

\* the count of populated actions taken as fine up to two
multiple_actions_three(helper) ==
    Cardinality({a \in {"choices", "input", "keys"} :
        \/ a = "choices" /\ Len(helper.choices) > 0
        \/ a = "input" /\ is_some(helper.input)
        \/ a = "keys" /\ Len(helper.keys) > 0}) > 2

\* [!choices.is_empty(), input.is_some(), !keys.is_empty()] ... count() > 1
multiple_actions(helper) ==
    Cardinality({a \in {"choices", "input", "keys"} :
        \/ a = "choices" /\ Len(helper.choices) > 0
        \/ a = "input" /\ is_some(helper.input)
        \/ a = "keys" /\ Len(helper.keys) > 0}) > 1

\* the name test skipped
NodeError_AnyName(helper) ==
    IF multiple_actions(helper)
    THEN Some(ONLY_ONE \o unwrap_or(helper.name, unwrap_or(helper.value, << >>)))
    ELSE None

\* Node::deserialize, the Err returns: the error of the node's own fields
NodeError(helper) ==
    LET value == unwrap_or(helper.value, << >>)
        name == unwrap_or(helper.name, value)
    IN  IF name = << >> THEN Some(NAME_EMPTY)
        ELSE IF multiple_actions(helper) THEN Some(ONLY_ONE \o name)
        ELSE None

\* serde: the children of a node are deserialized, in order, while its helper
\* is read, so the first error is the first one in post-order
RECURSIVE deserialize_seq(_, _)
RECURSIVE deserialize_node(_, _)
deserialize_seq(raw, ixs) ==
    IF Len(ixs) = 0 THEN None
    ELSE LET e == deserialize_node(raw, ixs[1])
         IN  IF is_some(e) THEN e ELSE deserialize_seq(raw, Tail(ixs))

deserialize_node(raw, i) ==
    LET below == deserialize_seq(raw, raw[i].keys)
    IN  IF is_some(below) THEN below ELSE NodeError(raw[i])

\* the keys of the nodes at the positions ixs
KeysOf(nodes, ixs) == [k \in 1..Len(ixs) |-> nodes[ixs[k]].key]

\* a repeated key passed over
ensure_unique_none(parent_id, keys) == None

\* Config::ensure_unique: the first key seen before, behind parent_id
ensure_unique(parent_id, keys) ==
    LET seen_before == {k \in 1..Len(keys) : \E j \in 1..(k - 1) : keys[j] = keys[k]}
    IN  IF seen_before = {} THEN None
        ELSE Some(parent_id \o
                  keys[CHOOSE k \in seen_before : \A j \in seen_before : k <= j])

\* fn set_id(node, parent_id): the id, the check of the children, the children
RECURSIVE set_id(_, _, _)
RECURSIVE set_id_each(_, _, _)
set_id(nodes, i, parent_id) ==
    LET id == id_from_parent(parent_id, nodes[i].key)
        named == [nodes EXCEPT ![i].id = id]
        clash == ensure_unique(id, KeysOf(nodes, nodes[i].keys))
    IN  IF is_some(clash) THEN [nodes |-> named, err |-> clash]
        ELSE set_id_each(named, nodes[i].keys, id)

set_id_each(nodes, ixs, parent_id) ==
    IF Len(ixs) = 0 THEN [nodes |-> nodes, err |-> None]
    ELSE LET r == set_id(nodes, ixs[1], parent_id)
         IN  IF is_some(r.err) THEN r
             ELSE set_id_each(r.nodes, Tail(ixs), parent_id)

Loaded(contents, status, error, keys) ==
    [status |-> status, contents |-> contents, roots |-> LoadRoots,
     error |-> error, keys |-> keys]

\* Config::from_contents
from_contents(contents) ==
    LET bad == deserialize_seq(contents, LoadRoots)
        nodes == [i \in 1..Len(contents) |-> NodeDeserialize(contents[i])]
        clash == ensure_unique(<< >>, KeysOf(nodes, LoadRoots))
        r == set_id_each(nodes, LoadRoots, << >>)
    IN  IF is_some(bad) THEN Loaded(contents, "ConfigParse", unwrap(bad), << >>)
        ELSE IF is_some(clash)
        THEN Loaded(contents, "ConflictingKeys", unwrap(clash), << >>)
        ELSE IF is_some(r.err)
        THEN Loaded(contents, "ConflictingKeys", unwrap(r.err), << >>)
        ELSE Loaded(contents, "Ok", << >>, r.nodes)

----------------------------------------------------------------------------
(* search.rs: the search options of a list of nodes; and the path behind an *)
(* id, rebuild_path, as the specification describes it.  T is the tree the  *)
(* positions in keys refer to.                                              *)

SearchNode(id, command) == [id |-> id, command |-> command]

\* the options of the nodes at ixs only, nothing below them
get_search_options_flat(T, ixs, p) ==
    [k \in 1..Len(ixs) |->
        SearchNode(T[ixs[k]].id, compose_command(Append(p, T[ixs[k]])))]

\* get_search_options_recursively(nodes, path): flat_map over nodes
RECURSIVE get_search_options_recursively(_, _, _)
get_search_options_recursively(T, ixs, p) ==
    IF Len(ixs) = 0 THEN << >>
    ELSE LET node == T[ixs[1]]
             new_path == Append(p, node)
             command == compose_command(new_path)
             search_nodes ==
                 <<SearchNode(node.id, command)>> \o
                 (IF Len(node.keys) > 0
                  THEN get_search_options_recursively(T, node.keys, new_path)
                  ELSE << >>)
         IN  search_nodes \o get_search_options_recursively(T, Tail(ixs), p)

\* get_search_options(nodes): flat_map over nodes, each the start of a path
RECURSIVE get_search_options(_, _)
get_search_options(T, nodes) ==
    IF Len(nodes) = 0 THEN << >>
    ELSE get_search_options_recursively(T, nodes[1].keys, <<nodes[1]>>)
             \o get_search_options(T, Tail(nodes))

\* the loop index of the first loop node kept
RECURSIVE rebuild_from_first_loop(_, _, _, _, _)
rebuild_from_first_loop(T, candidates, identity, p, loop_anchor_index) ==
    IF Len(identity) = 0
    THEN [path |-> p, loop_anchor_index |-> loop_anchor_index]
    ELSE LET hits == {k \in 1..Len(candidates) :
                         T[candidates[k]].key = <<identity[1]>>}
         IN  IF hits = {}
             THEN [path |-> p, loop_anchor_index |-> loop_anchor_index]
             ELSE LET node == T[candidates[CHOOSE k \in hits : \A j \in hits : k <= j]]
                      pushed == Append(p, node)
                  IN  rebuild_from_first_loop(T, node.keys, Tail(identity), pushed,
                          IF node.is_loop /\ ~is_some(loop_anchor_index)
                          THEN Some(Len(pushed) - 1)
                          ELSE loop_anchor_index)

\* rebuild_path, one character of the identity at a time: the node of the
\* candidates with that key is pushed, a loop node records its index, its
\* children are the next candidates; the first unmatched character stops it
RECURSIVE rebuild_from(_, _, _, _, _)
rebuild_from(T, candidates, identity, p, loop_anchor_index) ==
    IF Len(identity) = 0
    THEN [path |-> p, loop_anchor_index |-> loop_anchor_index]
    ELSE LET hits == {k \in 1..Len(candidates) :
                         T[candidates[k]].key = <<identity[1]>>}
         IN  IF hits = {}
             THEN [path |-> p, loop_anchor_index |-> loop_anchor_index]
             ELSE LET node == T[candidates[CHOOSE k \in hits : \A j \in hits : k <= j]]
                      pushed == Append(p, node)
                  IN  rebuild_from(T, node.keys, Tail(identity), pushed,
                                   IF node.is_loop THEN Some(Len(pushed) - 1)
                                   ELSE loop_anchor_index)

\* rebuild_path(identity, globalRoots) -> (path, loop_anchor_index)
rebuild_path(T, globalRoots, identity) ==
    rebuild_from(T, globalRoots, identity, << >>, None)

\* the nodes of T at the positions ixs: &config.keys
At(T, ixs) == [k \in 1..Len(ixs) |-> T[ixs[k]]]

InitLoad ==
    /\ path = << >>
    /\ loop_node_index = None
    /\ outcome = "pending"
    /\ result = << >>
    /\ opts = [print_immediate_tag |-> FALSE]
    /\ event = Ev("None", "")
    /\ \E contents \in RawConfigs : config = Loaded(contents, "read", << >>, << >>)
    /\ search = NoSearch
    /\ dialog = NoDialog

\* let config = Config::from_contents(&contents)
Load ==
    /\ config.status = "read"
    /\ event' = Ev("load", "")
    /\ config' = from_contents(config.contents)
    /\ UNCHANGED <<path, loop_node_index, outcome, result, opts, search, dialog>>

\* get_search_options(&config.keys)
Flatten ==
    /\ config.status = "Ok"
    /\ search = NoSearch
    /\ event' = Ev("flatten", "")
    /\ search' = [options |-> get_search_options(config.keys,
                                                  At(config.keys, config.roots)),
                  picked |-> None]
    /\ UNCHANGED <<path, loop_node_index, outcome, result, opts, config, dialog>>

\* rebuild_path on the id of one of the options
Rebuild ==
    /\ search.picked = None
    /\ \E selection \in 0..(Len(search.options) - 1) :
        LET rebuilt == rebuild_path(config.keys, config.roots,
                                    search.options[selection + 1].id)
        IN  /\ search' = [search EXCEPT !.picked = Some(selection)]
            /\ path' = rebuilt.path
            /\ loop_node_index' = rebuilt.loop_anchor_index
    /\ event' = Ev("rebuild", "")
    /\ UNCHANGED <<outcome, result, opts, config, dialog>>

\* doctor_command: a file that does not load ends the process with status 1;
\* one that loads is reported valid, after a warning when the id of one of
\* its search options contains '/'
Doctor ==
    /\ config.status # "read"
    /\ outcome = "pending"
    /\ event' = Ev("doctor", "")
    /\ outcome' =
          IF config.status # "Ok" THEN "exit(1)"
          ELSE LET search_options ==
                       get_search_options(config.keys, At(config.keys, config.roots))
               IN  IF \E k \in 1..Len(search_options) :
                          \E j \in 1..Len(search_options[k].id) :
                              search_options[k].id[j] = "/"
                   THEN "warned"
                   ELSE "valid"
    /\ UNCHANGED <<path, loop_node_index, result, opts, config, search, dialog>>

NextLoad == Load \/ Flatten \/ Rebuild \/ Doctor

SpecLoad == InitLoad /\ [][NextLoad]_vars

----------------------------------------------------------------------------
(* The navigation loop with search and with dialogs that can be cancelled:  *)
(* the transitions of run_tui, the key '/' taken out of them, and the       *)
(* transitions the specification adds (sections 3 and 4.2).                 *)

\* the nodes search is opened against: the top-level nodes on the empty path,
\* else the last entry of the path
SearchScope == IF Len(path) = 0 THEN Nodes(RawRoots) ELSE <<Last(path)>>

\* the loop index after the path shrank to p: cleared at or beyond Len(p)
ClearedAt(p, index) ==
    IF is_some(index) /\ Len(p) <= unwrap(index) THEN None ELSE index

\* '/', the search dialog hands back an entry: the path and the loop index
\* are those rebuilt from its id against the top-level nodes
SearchResult ==
    /\ outcome = "pending"
    /\ event' = Ev("Search", "/")
    /\ LET options == get_search_options(Tree, SearchScope)
       IN  \E selection \in 0..(Len(options) - 1) :
               LET rebuilt == rebuild_path(Tree, RawRoots, options[selection + 1].id)
               IN  /\ search' = [options |-> options, picked |-> Some(selection)]
                   /\ path' = rebuilt.path
                   /\ loop_node_index' = rebuilt.loop_anchor_index
    /\ UNCHANGED <<outcome, result, opts, config, dialog>>

\* '/', the search dialog is cancelled: the trailing fleeting entries go
SearchCancel ==
    /\ outcome = "pending"
    /\ event' = Ev("SearchCancel", "/")
    /\ search' = [options |-> get_search_options(Tree, SearchScope), picked |-> None]
    /\ LET popped == pop_to_first_non_is_fleeting(path)
       IN  /\ path' = popped
           /\ loop_node_index' = ClearedAt(popped, loop_node_index)
    /\ UNCHANGED <<outcome, result, opts, config, dialog>>

\* a key bound to a node with choices or with an input request, the dialog
\* cancelled: the node is pushed, then the trailing fleeting entries go
DialogCancel ==
    /\ outcome = "pending"
    /\ \E c \in Chars \ {"/"} :
        LET found == find(current_nodes, c)
        IN  /\ is_some(found)
            /\ has_choices(unwrap(found)) \/ is_some(unwrap(found).input_type)
            /\ event' = Ev("DialogCancel", c)
            /\ LET node == unwrap(found)
                   pushed == Append(path, node)
                   new_loop == IF node.is_loop THEN Some(Len(pushed) - 1)
                               ELSE loop_node_index
                   popped == pop_to_first_non_is_fleeting(pushed)
               IN  /\ path' = popped
                   /\ loop_node_index' = ClearedAt(popped, new_loop)
    /\ UNCHANGED <<outcome, result, opts>>
    /\ UNCHANGED outside

\* KeyCode::Char(c), c any character but '/'
NavKey == KeyChar /\ event'.c # "/"

NextSearch ==
    \/ EscKey \/ NavKey \/ Backspace \/ EnterKey \/ OtherEvent
    \/ SearchResult \/ SearchCancel \/ DialogCancel

SpecSearch == Init /\ [][NextSearch]_vars

----------------------------------------------------------------------------
(* fuzzy_select.rs: FuzzySelect::interact, the list with a query line.  The *)
(* call reads key events until it returns Ok(Some(index)) or Ok(None).  A   *)
(* query is a String: a character takes len_utf8 bytes, and insert and      *)
(* remove take a byte index that must lie on a character boundary.          *)

\* the longest query typed, in characters
MaxQuery == 2

\* the characters typed into the query; the last one takes two bytes
FuzzyChars == {"a", "b", "é"}

\* char::len_utf8
len_utf8(c) == IF c \in {"a", "b"} THEN 1 ELSE 2

\* String::len: the bytes of a string
RECURSIVE ByteLen(_)
ByteLen(str) == IF Len(str) = 0 THEN 0 ELSE len_utf8(str[1]) + ByteLen(Tail(str))

\* str::is_char_boundary
is_char_boundary(str, idx) ==
    \E k \in 0..Len(str) : ByteLen(SubSeq(str, 1, k)) = idx

\* the characters of str before the byte index idx, a character boundary
CharsBefore(str, idx) ==
    CHOOSE k \in 0..Len(str) : ByteLen(SubSeq(str, 1, k)) = idx

\* the item lists the dialog is opened on
AB == <<"a", "b">>
BA == <<"b", "a">>
ItemLists == {<< >>, <<AB, <<"b">>>>, <<BA, <<"a">>, AB>>}

\* MatchedItem { index, score, text }
MatchedItem(index, score, text) == [index |-> index, score |-> score, text |-> text]

\* the positions of text at which query can start to be found as a subsequence
RECURSIVE IsSubsequence(_, _)
IsSubsequence(query, text) ==
    IF Len(query) = 0 THEN TRUE
    ELSE IF Len(text) = 0 THEN FALSE
    ELSE IF query[1] = text[1] THEN IsSubsequence(Tail(query), Tail(text))
    ELSE IsSubsequence(query, Tail(text))

\* SkimMatcherV2::fuzzy_match(text, query): None unless the characters of the
\* query occur in text in their order; the score stands for the one of the
\* library: the same for the same pair, higher for a shorter text
fuzzy_match(text, query) ==
    IF IsSubsequence(query, text)
    THEN Some(16 * Len(query) - Len(text))
    ELSE None

\* x put behind the entries of sorted that score at least as high (stable)
RECURSIVE InsertByScore(_, _)
InsertByScore(x, sorted) ==
    IF Len(sorted) = 0 THEN <<x>>
    ELSE IF sorted[1].score >= x.score
    THEN <<sorted[1]>> \o InsertByScore(x, Tail(sorted))
    ELSE <<x>> \o sorted

\* matched.sort_by(|a, b| b.score.cmp(&a.score))
RECURSIVE sort_by_score(_)
sort_by_score(matched) ==
    IF Len(matched) = 0 THEN << >>
    ELSE InsertByScore(matched[Len(matched)],
                       sort_by_score(SubSeq(matched, 1, Len(matched) - 1)))

\* the items from position k on that match, each with its index and score
RECURSIVE filter_map(_, _, _)
filter_map(items, query, k) ==
    IF k > Len(items) THEN << >>
    ELSE LET score == fuzzy_match(items[k], query)
         IN  (IF is_some(score)
              THEN <<MatchedItem(k - 1, unwrap(score), items[k])>>
              ELSE << >>) \o filter_map(items, query, k + 1)

\* FuzzySelect::filter_items
filter_items(items, query) ==
    IF Len(query) = 0
    THEN [k \in 1..Len(items) |-> MatchedItem(k - 1, 0, items[k])]
    ELSE sort_by_score(filter_map(items, query, 1))

\* the top of the loop: selected_index is brought back into matched_items
Clamped(items, query, selected_index) ==
    LET matched_items == filter_items(items, query)
    IN  IF selected_index >= Len(matched_items) /\ Len(matched_items) > 0
        THEN Len(matched_items) - 1
        ELSE selected_index

\* the dialog between two events
Select(items, query, cursor_pos, selected_index, status, value) ==
    [items |-> items, query |-> query, cursor_pos |-> cursor_pos,
     selected_index |-> Clamped(items, query, selected_index),
     status |-> status, value |-> value]

\* FuzzySelect::new(items).interact(terminal)
InitFuzzy ==
    /\ path = << >>
    /\ loop_node_index = None
    /\ outcome = "pending"
    /\ result = << >>
    /\ opts = [print_immediate_tag |-> FALSE]
    /\ event = Ev("None", "")
    /\ config = NoConfig
    /\ search = NoSearch
    /\ \E items \in ItemLists : dialog = Select(items, << >>, 0, 0, "open", None)

\* KeyCode::Esc
FuzzyEsc ==
    /\ dialog.status = "open"
    /\ event' = Ev("Esc", "")
    /\ dialog' = [dialog EXCEPT !.status = "Ok(None)"]
    /\ UNCHANGED session

\* KeyCode::Enter
FuzzyEnter ==
    /\ dialog.status = "open"
    /\ event' = Ev("Enter", "")
    /\ LET matched_items == filter_items(dialog.items, dialog.query)
       IN  dialog' =
              IF Len(matched_items) = 0
              THEN [dialog EXCEPT !.status = "Ok(None)"]
              ELSE [dialog EXCEPT
                       !.status = "Ok(Some)",
                       !.value = Some(matched_items[dialog.selected_index + 1].index)]
    /\ UNCHANGED session

\* KeyCode::Char(c): query.insert(cursor_pos, c) panics when cursor_pos is not
\* on a character boundary of the query
FuzzyChar ==
    /\ dialog.status = "open"
    /\ Len(dialog.query) < MaxQuery
    /\ \E c \in FuzzyChars :
        /\ event' = Ev("Char", c)
        /\ dialog' =
              IF is_char_boundary(dialog.query, dialog.cursor_pos)
              THEN LET k == CharsBefore(dialog.query, dialog.cursor_pos)
                       query == SubSeq(dialog.query, 1, k) \o <<c>>
                                    \o SubSeq(dialog.query, k + 1, Len(dialog.query))
                   IN  Select(dialog.items, query, dialog.cursor_pos + 1, 0,
                              "open", None)
              ELSE [dialog EXCEPT !.status = "panicked"]
    /\ UNCHANGED session

\* KeyCode::Backspace: query.remove(cursor_pos - 1) panics when cursor_pos - 1
\* is not the start of a character of the query
FuzzyBackspace ==
    /\ dialog.status = "open"
    /\ event' = Ev("Backspace", "")
    /\ dialog' =
          IF dialog.cursor_pos > 0
          THEN IF /\ is_char_boundary(dialog.query, dialog.cursor_pos - 1)
                  /\ dialog.cursor_pos - 1 < ByteLen(dialog.query)
               THEN LET k == CharsBefore(dialog.query, dialog.cursor_pos - 1)
                        query == SubSeq(dialog.query, 1, k)
                                     \o SubSeq(dialog.query, k + 2, Len(dialog.query))
                    IN  Select(dialog.items, query, dialog.cursor_pos - 1, 0,
                               "open", None)
               ELSE [dialog EXCEPT !.status = "panicked"]
          ELSE dialog
    /\ UNCHANGED session

\* KeyCode::Up
FuzzyUp ==
    /\ dialog.status = "open"
    /\ event' = Ev("Up", "")
    /\ dialog' = Select(dialog.items, dialog.query, dialog.cursor_pos,
                        IF dialog.selected_index > 0 THEN dialog.selected_index - 1
                        ELSE 0,
                        "open", None)
    /\ UNCHANGED session

\* KeyCode::Down
FuzzyDown ==
    /\ dialog.status = "open"
    /\ event' = Ev("Down", "")
    /\ LET matched_items == filter_items(dialog.items, dialog.query)
       IN  dialog' = Select(dialog.items, dialog.query, dialog.cursor_pos,
                            IF Len(matched_items) > 0
                               /\ dialog.selected_index < Len(matched_items) - 1
                            THEN dialog.selected_index + 1
                            ELSE dialog.selected_index,
                            "open", None)
    /\ UNCHANGED session

NextFuzzy ==
    FuzzyEsc \/ FuzzyEnter \/ FuzzyChar \/ FuzzyBackspace \/ FuzzyUp \/ FuzzyDown

SpecFuzzy == InitFuzzy /\ [][NextFuzzy]_vars

----------------------------------------------------------------------------
(* Claims *)

IsPrefix(s, t) == Len(s) <= Len(t) /\ SubSeq(t, 1, Len(s)) = s

RECURSIVE SumLen(_)
SumLen(parts) == IF Len(parts) = 0 THEN 0 ELSE Len(parts[1]) + SumLen(Tail(parts))

\* the index of the last anchor of p (0-based), 0 when p has none
LastAnchor(p) ==
    LET A == {i \in 0..(Len(p) - 1) : p[i + 1].is_anchor}
    IN  IF A = {} THEN 0 ELSE CHOOSE i \in A : \A j \in A : j <= i

\* the values of p[i..]
ValuesFrom(p, i) == [k \in 1..(Len(p) - i) |-> p[i + k].value]

\* C1: compose(path) is the values of path[i..] joined by single spaces, i the
\* index of the last anchor or 0: the empty path gives the empty string, no
\* node before the last anchor contributes, and every node from i on
\* contributes its value, empty or not, with one space between neighbours.
C1_Compose ==
    event.code = "compose" =>
        LET i == LastAnchor(path)
            parts == ValuesFrom(path, i)
        IN  /\ result = join(parts, SPACE)
            /\ (path = << >> => result = << >>)
            /\ (path # << >> => Len(result) = SumLen(parts) + (Len(path) - i) - 1)
            /\ (path # << >> => IsPrefix(path[i + 1].value, result))

\* a path with an anchor in the middle, a later anchor and an empty value
C1_Witness ==
    /\ event.code = "compose"
    /\ Len(path) = 3
    /\ path[1].is_anchor /\ path[2].is_anchor /\ ~path[3].is_anchor
    /\ path[2].value = GIT /\ path[3].value = << >>
    /\ result = GIT \o SPACE

\* the command of a path as section 4.3 words it
ComposeOf(p) == join(ValuesFrom(p, LastAnchor(p)), SPACE)

\* a result that carries the command, with or without the immediate tag
Carries(res, command) ==
    res = command \/ res = IMMEDIATE_PREFIX \o SPACE \o command

\* the menu entry the character of the next event selects, if any
Selected == find(current_nodes, event'.c)

\* C2 as claimed: with no loop anchor active, the key of a leaf entry n pushes
\* n and confirms the session with compose(path ++ [n]) (g then s confirms
\* "git status"); the key of a non-leaf entry never ends the session.
C2_Original ==
    [][(outcome = "pending" /\ ~is_some(loop_node_index)
        /\ event'.code = "Char" /\ is_some(Selected)) =>
          LET n == unwrap(Selected)
          IN  /\ is_leaf(n) =>
                    /\ path' = Append(path, n)
                    /\ outcome' = "confirmed"
                    /\ Carries(result', ComposeOf(Append(path, n)))
              /\ ~is_leaf(n) => outcome' = "pending"]_vars

\* C2 amended: the same for a leaf entry n that is not itself a loop node.
C2_LeafConfirms ==
    [][(outcome = "pending" /\ ~is_some(loop_node_index)
        /\ event'.code = "Char" /\ is_some(Selected)) =>
          LET n == unwrap(Selected)
          IN  /\ (is_leaf(n) /\ ~n.is_loop) =>
                    /\ path' = Append(path, n)
                    /\ outcome' = "confirmed"
                    /\ Carries(result', ComposeOf(Append(path, n)))
              /\ (path = <<Tree[1]>> /\ n = Tree[2]) =>
                    result' = GIT \o SPACE \o STATUS
              /\ ~is_leaf(n) => outcome' = "pending"]_vars

\* g then s pressed: "git status" confirmed
C2_Witness ==
    /\ event.code = "Char"
    /\ event.c = "s"
    /\ outcome = "confirmed"
    /\ path = <<Tree[1], Tree[2]>>
    /\ result = GIT \o SPACE \o STATUS

\* C3: while a loop anchor is active, the key of a leaf entry pushes the leaf
\* and leaves the session pending, and the session ends only by Confirm
\* (confirmed) or Abort (cancelled).
C3_LoopLeafStays ==
    [][(outcome = "pending" /\ is_some(loop_node_index)) =>
          /\ (event'.code = "Char" /\ is_some(Selected)
              /\ is_leaf(unwrap(Selected))) =>
                    /\ path' = Append(path, unwrap(Selected))
                    /\ outcome' = "pending"
                    /\ is_some(loop_node_index')
          /\ outcome' # "pending" =>
                    \/ event'.code = "Enter" /\ outcome' = "confirmed"
                    \/ event'.code = "Esc" /\ outcome' = "cancelled"]_vars

\* under the loop node a, the leaves b and c were selected one after the other
C3_Witness ==
    /\ event = Ev("Char", "c")
    /\ outcome = "pending"
    /\ loop_node_index = Some(0)
    /\ path = <<Tree[6], Tree[7], Tree[8]>>

\* a node that asks for a choice or for input
Asks(n) == has_choices(n) \/ is_some(n.input_type)

\* the keys of the loop node that are repeatable or not yet in the path
LoopMenu ==
    LET InPath(n) == \E k \in 1..Len(path) : path[k].id = n.id
    IN  SelectSeq(Nodes(path[unwrap(loop_node_index) + 1].keys),
                  LAMBDA n : n.is_repeatable \/ ~InPath(n))

\* C4 as claimed: with a loop anchor active and a leaf at the end of the path,
\* the menu is the children of the loop node without every child that is in
\* the path and is not repeatable (after [a, b, c] only b is offered).
C4_Original ==
    (outcome = "pending" /\ is_some(loop_node_index) /\ is_leaf(Last(path)))
        => current_nodes = LoopMenu

\* C5: a Backtrack leaves a path that is empty or ends in a non-fleeting
\* entry; it removes at least one entry of a non-empty path and only from its
\* end, changes nothing on the empty path, empties a path whose entries are
\* all fleeting, and never ends the session (g, Backtrack, Backtrack: empty
\* path, pending).
C5_Backtrack ==
    [][event'.code = "Backspace" =>
          /\ path' = << >> \/ ~Last(path').is_fleeting
          /\ IsPrefix(path', path)
          /\ path # << >> => Len(path') < Len(path)
          /\ path = << >> => path' = << >> /\ loop_node_index' = loop_node_index
          /\ (\A k \in 1..Len(path) : path[k].is_fleeting) => path' = << >>
          /\ path \in {<<Tree[1]>>, << >>} => path' = << >>
          /\ outcome' = "pending" /\ result' = result]_vars

\* a Backtrack took the path back to g, over fleeting entries or not
C5_Witness ==
    /\ event.code = "Backspace"
    /\ outcome = "pending"
    /\ path = <<Tree[1]>>

\* C6 as claimed: a selected node that asks for a choice or for input is
\* fleeting, flagged or not, and one Backtrack right after its result was
\* pushed removes the result and the node (the node is never left as the tail).
C6_Original ==
    [][/\ (event'.code = "Char" /\ is_some(Selected) /\ Asks(unwrap(Selected)))
            => unwrap(Selected).is_fleeting
       /\ (event.code = "Char" /\ Len(path) > 1 /\ Asks(path[Len(path) - 1])
           /\ Last(path).key \in {CHOICE_KEY, INPUT_KEY}
           /\ event'.code = "Backspace")
            => /\ Len(path') <= Len(path) - 2
               /\ path' = << >> \/ ~Asks(Last(path'))]_vars

\* C7: Confirm on a non-empty path confirms the session at once, leaf at the
\* end or not, loop anchor or not, with compose of the path as it is; the path
\* and the loop anchor are left as they were.
C7_Confirm ==
    [][(event'.code = "Enter" /\ path # << >>) =>
          /\ outcome' = "confirmed"
          /\ path' = path
          /\ loop_node_index' = loop_node_index
          /\ Carries(result', ComposeOf(path))]_vars

\* confirmed by Enter under a loop anchor with a non-leaf at the end
C7_Witness ==
    /\ event.code = "Enter"
    /\ outcome = "confirmed"
    /\ is_some(loop_node_index)
    /\ ~is_leaf(Last(path))
    /\ result = ComposeOf(path)

\* C8 as claimed: Confirm on the empty path changes nothing: the path stays
\* empty, the loop anchor unset, the session pending, and there is no result
\* and no error.
C8_Original ==
    [][(event'.code = "Enter" /\ path = << >>) =>
          /\ path' = << >>
          /\ loop_node_index' = None
          /\ outcome' = "pending"
          /\ result' = << >>]_vars

\* C9: a confirmed result is the immediate sentinel, one space and the
\* composed command exactly when the caller asked for the tag and the deciding
\* node (the selected leaf or the tail at Confirm, in both cases the last
\* entry of the path) is immediate; otherwise, and always when the tag was
\* not asked for, it is the composed command.
C9_ImmediateTag ==
    outcome = "confirmed" =>
        LET command == ComposeOf(path)
            tagged == opts.print_immediate_tag /\ Last(path).is_immediate
        IN  /\ (result = IMMEDIATE_PREFIX \o SPACE \o command) <=> tagged
            /\ ~tagged => result = command
            /\ ~opts.print_immediate_tag => result = command

\* g, h, p with the tag asked for: the tagged "gh pr"
C9_Witness ==
    /\ outcome = "confirmed"
    /\ opts.print_immediate_tag
    /\ path = <<Tree[1], Tree[3], Tree[5]>>
    /\ result = IMMEDIATE_PREFIX \o SPACE \o GH \o SPACE \o PR

\* C10: Abort is accepted in every pending state and ends the session as
\* cancelled with the empty result, whatever the path composes to.
C10_Abort ==
    /\ outcome = "pending" => ENABLED EscKey
    /\ event.code = "Esc" => outcome = "cancelled" /\ result = << >>
    /\ outcome = "cancelled" => event.code = "Esc"

\* aborted under a loop anchor with a path that composes to a command
C10_Witness ==
    /\ event.code = "Esc"
    /\ outcome = "cancelled"
    /\ is_some(loop_node_index)
    /\ ComposeOf(path) # << >>
    /\ result = << >>

\* C11 as claimed: the empty string is returned only by an aborted session;
\* every confirmed session returns a non-empty string.
C11_Original ==
    /\ (outcome \in {"confirmed", "cancelled"} /\ result = << >>) =>
          outcome = "cancelled"
    /\ outcome = "confirmed" => result # << >>

\* C11 amended: an aborted session returns the empty string; a confirmed
\* session returns the empty string exactly when no immediate tag is added and
\* the path holds, from its last anchor on, one node and that node's value is
\* empty; every other confirmed session returns a non-empty string.
C11_EmptyResult ==
    /\ outcome = "cancelled" => result = << >>
    /\ outcome = "confirmed" =>
          (result = << >> <=>
              /\ Len(path) - LastAnchor(path) = 1
              /\ Last(path).value = << >>
              /\ ~(opts.print_immediate_tag /\ Last(path).is_immediate))

\* confirmed on k alone, a node with a name and no value: the empty string
C11_Witness ==
    /\ outcome = "confirmed"
    /\ path = <<Tree[18]>>
    /\ result = << >>

\* C12: a character key bound to no entry of the menu changes nothing: path,
\* loop anchor, outcome and result stay as they were.
C12_InvalidKey ==
    [][(event'.code = "Char" /\ ~is_some(Selected)) =>
          /\ path' = path
          /\ loop_node_index' = loop_node_index
          /\ outcome' = outcome
          /\ result' = result]_vars

\* z pressed under the loop node a with b selected
C12_Witness ==
    /\ event = Ev("Char", "z")
    /\ outcome = "pending"
    /\ loop_node_index = Some(0)
    /\ path = <<Tree[6], Tree[7]>>

\* C13 as claimed: a Number prompt never ends with an error, whatever keys it
\* is given: it stays open, is cancelled, or hands back a string that parses
\* as an integer.
C13_Original ==
    dialog.input_type = "Number" =>
        /\ dialog.status \in {"open", "Ok(None)", "Ok(Some)"}
        /\ dialog.status = "Ok(Some)" => is_some(parse_i32(dialog.value))

\* the strings of a list run together
RECURSIVE Concat(_)
Concat(strings) ==
    IF Len(strings) = 0 THEN << >> ELSE strings[1] \o Concat(Tail(strings))

\* the positions from a top-level node down to node i in the file read
RECURSIVE Lineage(_, _)
Lineage(contents, i) ==
    LET above == {j \in 1..Len(contents) :
                     \E k \in 1..Len(contents[j].keys) : contents[j].keys[k] = i}
    IN  IF above = {} THEN <<i>>
        ELSE Append(Lineage(contents, CHOOSE j \in above : TRUE), i)

\* the keys from the top-level node down to node i, run together
KeyChain(contents, i) == Concat(KeysOf(contents, Lineage(contents, i)))

\* the lists of siblings of a file, each with the key chain of its parent
SiblingLists(contents) ==
    {[prefix |-> << >>, ixs |-> LoadRoots]} \cup
    {[prefix |-> KeyChain(contents, i), ixs |-> contents[i].keys] :
        i \in 1..Len(contents)}

\* the keys that two nodes of a list of siblings share
Repeated(nodes, ixs) ==
    {nodes[ixs[k]].key : k \in {k \in 1..Len(ixs) :
        \E j \in 1..Len(ixs) : j # k /\ nodes[ixs[j]].key = nodes[ixs[k]].key}}

HasRepeatedKey(contents) ==
    \E l \in SiblingLists(contents) : Repeated(contents, l.ixs) # {}

\* the name a node ends up with: the name written, else the value written
ResolvedName(h) ==
    IF Len(h.name) > 0 THEN h.name[1]
    ELSE IF Len(h.value) > 0 THEN h.value[1]
    ELSE << >>

\* how many of keys, choices and input a node populates
Actions(keys, choices, input) ==
    (IF Len(keys) > 0 THEN 1 ELSE 0) + (IF Len(choices) > 0 THEN 1 ELSE 0)
        + (IF Len(input) > 0 THEN 1 ELSE 0)

\* no node of the file fails on its own fields
Deserializes(contents) ==
    \A i \in 1..Len(contents) :
        /\ ResolvedName(contents[i]) # << >>
        /\ Actions(contents[i].keys, contents[i].choices, contents[i].input) <= 1

\* C14: in every loaded tree the id of every node is the keys of its
\* ancestors from the top-level node down, followed by its own key; the id of
\* a top-level node is its key.
C14_Identity ==
    config.status = "Ok" =>
        /\ \A i \in 1..Len(config.keys) :
              config.keys[i].id = KeyChain(config.contents, i)
        /\ \A k \in 1..Len(config.roots) :
              config.keys[config.roots[k]].id = config.keys[config.roots[k]].key

\* a loaded tree three levels deep with a key of two characters in the middle
C14_Witness ==
    /\ config.status = "Ok"
    /\ config.keys[1].id = <<"a">>
    /\ config.keys[3].id = <<"a", "a", "b">>
    /\ config.keys[5].id = <<"a", "a", "b", "b">>

\* C15 as claimed: a file with two siblings of the same key, at any level,
\* fails to load with ConflictingKeys, the error carrying the id of the
\* parent of the two (empty for the top level); a loaded tree has no two
\* siblings of the same key.
C15_Original ==
    config.status # "read" =>
        /\ HasRepeatedKey(config.contents) =>
              /\ config.status = "ConflictingKeys"
              /\ \E l \in SiblingLists(config.contents) :
                    /\ Repeated(config.contents, l.ixs) # {}
                    /\ config.error = l.prefix
        /\ config.status = "Ok" =>
              \A l \in SiblingLists(config.contents) :
                  Repeated(config.keys, l.ixs) = {}

\* C15 amended: a file with two siblings of the same key, at any level, fails
\* to load: with ConflictingKeys when every node deserializes, else with the
\* ConfigParse error of the node that does not.  ConflictingKeys carries the
\* id of the parent of two such siblings (empty for the top level) followed
\* by the key they share.  A loaded tree has no two siblings of the same key.
C15_Conflict ==
    config.status # "read" =>
        /\ HasRepeatedKey(config.contents) =>
              config.status = (IF Deserializes(config.contents)
                               THEN "ConflictingKeys" ELSE "ConfigParse")
        /\ config.status = "ConflictingKeys" =>
              \E l \in SiblingLists(config.contents) :
                  \E key \in Repeated(config.contents, l.ixs) :
                      config.error = l.prefix \o key
        /\ config.status = "Ok" =>
              \A l \in SiblingLists(config.contents) :
                  Repeated(config.keys, l.ixs) = {}

\* the two children of the top-level node a both have the key b
C15_Witness ==
    /\ config.status = "ConflictingKeys"
    /\ config.contents[1].key = <<"a">>
    /\ config.contents[3].key = <<"b">>
    /\ config.contents[4].key = <<"b">>
    /\ config.error = <<"a", "b">>

\* C16: a file with a node that populates more than one of keys, choices and
\* input fails to load; every node of a loaded tree has at most one of them.
C16_OneAction ==
    config.status # "read" =>
        /\ (\E i \in 1..Len(config.contents) :
               Actions(config.contents[i].keys, config.contents[i].choices,
                       config.contents[i].input) > 1)
              => config.status = "ConfigParse"
        /\ config.status = "Ok" =>
              \A i \in 1..Len(config.keys) :
                  Actions(config.keys[i].keys, config.keys[i].choices,
                          config.keys[i].input_type) <= 1

\* the top-level node with children is given choices as well: rejected
C16_Witness ==
    /\ config.status = "ConfigParse"
    /\ Len(config.contents[1].keys) > 0
    /\ Len(config.contents[1].choices) > 0
    /\ config.error = ONLY_ONE \o <<"A">>

\* C17 as claimed: a file in which every node is given a name or a value is
\* not rejected for a name; a file with a node whose name resolves to empty
\* fails to load; every node of a loaded tree has a name.
C17_Original ==
    config.status # "read" =>
        /\ (\A i \in 1..Len(config.contents) :
               Len(config.contents[i].name) > 0 \/ Len(config.contents[i].value) > 0)
              => config.error # NAME_EMPTY
        /\ (\E i \in 1..Len(config.contents) :
               ResolvedName(config.contents[i]) = << >>)
              => config.status = "ConfigParse"
        /\ config.status = "Ok" =>
              \A i \in 1..Len(config.keys) : config.keys[i].name # << >>

\* C17 amended: at load the value of a node defaults to the empty string and
\* its name to its value.  A file is rejected for a name exactly when the
\* name of some node resolves to empty: the node is given neither, or an
\* empty name (with or without a value), or no name and an empty value.  Such
\* a file fails to load, and every node of a loaded tree has a name.
C17_Name ==
    config.status # "read" =>
        /\ config.error = NAME_EMPTY =>
              \E i \in 1..Len(config.contents) :
                  ResolvedName(config.contents[i]) = << >>
        /\ (\E i \in 1..Len(config.contents) :
               ResolvedName(config.contents[i]) = << >>)
              => config.status = "ConfigParse"
        /\ config.status = "Ok" =>
              \A i \in 1..Len(config.keys) :
                  /\ config.keys[i].name # << >>
                  /\ config.keys[i].name = ResolvedName(config.contents[i])
                  /\ config.keys[i].value =
                        (IF Len(config.contents[i].value) > 0
                         THEN config.contents[i].value[1] ELSE << >>)

\* a loaded tree with a node given a name only and a node given a value only
C17_Witness ==
    /\ config.status = "Ok"
    /\ config.contents[2].name = Some(<<"N">>) /\ config.contents[2].value = None
    /\ config.keys[2].name = <<"N">> /\ config.keys[2].value = << >>
    /\ config.contents[1].name = None
    /\ config.keys[1].name = <<"A">> /\ config.keys[1].value = <<"A">>

\* the positions at ixs and below them, each node before the nodes below
\* it, siblings in the order written
RECURSIVE Under(_, _)
Under(T, ixs) ==
    Concat([k \in 1..Len(ixs) |-> <<ixs[k]>> \o Under(T, T[ixs[k]].keys)])

\* the positions below the nodes at ixs
BelowAll(T, ixs) == Concat([k \in 1..Len(ixs) |-> Under(T, T[ixs[k]].keys)])

\* C18 as claimed: for every node X that the search options of the top-level
\* nodes record, the path rebuilt from the id of X ends in X and composes to
\* the command recorded for X.
C18_Original ==
    (event.code = "rebuild" /\ is_some(search.picked)) =>
        LET selection == unwrap(search.picked)
            X == BelowAll(config.keys, config.roots)[selection + 1]
        IN  /\ Len(path) > 0
            /\ path[Len(path)] = config.keys[X]
            /\ compose_command(path) = search.options[selection + 1].command

\* the index of the last loop node of p, None when p has none
DeepestLoop(p) ==
    LET L == {i \in 0..(Len(p) - 1) : p[i + 1].is_loop}
    IN  IF L = {} THEN None ELSE Some(CHOOSE i \in L : \A j \in L : j <= i)

\* the nodes of the tree from the top-level node down to the node at x
Chain(x) ==
    LET lineage == Lineage(RawTree, x)
    IN  [k \in 1..Len(lineage) |-> Tree[lineage[k]]]

\* C19: when search hands back an entry, the path is the nodes from the
\* top-level node down to the node with the id of that entry, whatever the
\* path was before, and the loop index is the index of the last loop node of
\* the new path, or None when the new path has no loop node.
C19_SearchResult ==
    event.code = "Search" =>
        LET identity == search.options[unwrap(search.picked) + 1].id
            X == CHOOSE x \in 1..Len(RawTree) : KeyChain(RawTree, x) = identity
        IN  /\ path = Chain(X)
            /\ loop_node_index = DeepestLoop(Chain(X))

\* search landed on j below the loop node i below the loop node a
C19_Witness ==
    /\ event.code = "Search"
    /\ path = <<Tree[6], Tree[11], Tree[12]>>
    /\ loop_node_index = Some(1)
    /\ outcome = "pending"

\* C20: a loop index that is set is smaller than the length of the path, and
\* the path entry at it is a loop node; in every reachable state, so after
\* Backspace, after a cancelled choice or input dialog and after a cancelled
\* search as well.
C20_LoopIndex ==
    is_some(loop_node_index) =>
        /\ unwrap(loop_node_index) < Len(path)
        /\ path[unwrap(loop_node_index) + 1].is_loop

\* Backspace took b off the path a, b: the index of the loop node a stays
C20_Witness ==
    /\ event.code = "Backspace"
    /\ path = <<Tree[6]>>
    /\ loop_node_index = Some(0)

\* C21 as claimed: with a loop index set and a last path entry that is no
\* leaf, the menu is the keys of that last entry; on the empty path the menu
\* is the top-level keys.
C21_Original ==
    outcome = "pending" =>
        /\ (is_some(loop_node_index) /\ Len(path) > 0 /\ ~is_leaf(Last(path)))
              => current_nodes = Nodes(Last(path).keys)
        /\ Len(path) = 0 => current_nodes = Nodes(RawRoots)

\* C22 as claimed: the choice dialog of a selected node n cancelled, the
\* session stays pending, the new path is the old path and n without its
\* trailing fleeting entries, n itself is among the entries removed, and no
\* entry is added.
C22_Original ==
    [][(event'.code = "DialogCancel" /\ is_some(Selected)
        /\ has_choices(unwrap(Selected))) =>
          /\ outcome' = "pending" /\ result' = result
          /\ IsPrefix(path', path)
          /\ path' = << >> \/ ~Last(path').is_fleeting
          /\ \A k \in (Len(path') + 1)..Len(path) : path[k].is_fleeting]_vars

\* the largest index asked of a choice list
MaxChoice == 3

NoFlags(n) ==
    /\ ~n.is_immediate /\ ~n.is_fleeting /\ ~n.is_anchor
    /\ ~n.is_loop /\ ~n.is_repeatable

\* C23: choosing option k in the choice dialog of node n pushes n and directly
\* after it exactly one synthesized node: its key is the choice sentinel, its
\* id is the id of n followed by the sentinel, its value and name are the k-th
\* choice, it is a leaf and all its flags are false; an index outside the
\* choice list of n gives no node.
C23_Selection ==
    [][(event'.code = "Char" /\ is_some(Selected) /\ has_choices(unwrap(Selected))) =>
          LET n == unwrap(Selected)
              k == unwrap(event'.selection)
              made == path'[Len(path) + 2]
          IN  /\ Len(path') = Len(path) + 2
              /\ SubSeq(path', 1, Len(path)) = path
              /\ path'[Len(path) + 1] = n
              /\ made.key = CHOICE_KEY
              /\ made.id = n.id \o CHOICE_KEY
              /\ made.value = n.choices[k + 1]
              /\ made.name = n.choices[k + 1]
              /\ is_leaf(made)
              /\ NoFlags(made)
              /\ Node_with_selection(n, k) = Some(made)
              /\ \A j \in Len(n.choices)..MaxChoice :
                     Node_with_selection(n, j) = None]_vars

C23_Witness ==
    /\ event.code = "Char"
    /\ event.selection = Some(1)
    /\ Len(path) = 3
    /\ path[2] = Tree[4]
    /\ path[3].value = Tree[4].choices[2]
    /\ outcome = "pending"

\* C24: confirming the input dialog of node n with text t pushes n and directly
\* after it exactly one synthesized node: its key is the input sentinel, which
\* is not the choice sentinel, its id is the id of n followed by t, its value
\* is t as typed, it is a leaf and all its flags are false.
C24_Original ==
    [][(event'.code = "Char" /\ is_some(Selected)
        /\ is_some(unwrap(Selected).input_type)) =>
          LET n == unwrap(Selected)
              t == unwrap(event'.typed)
              made == path'[Len(path) + 2]
          IN  /\ Len(path') = Len(path) + 2
              /\ SubSeq(path', 1, Len(path)) = path
              /\ path'[Len(path) + 1] = n
              /\ made.key = INPUT_KEY
              /\ INPUT_KEY # CHOICE_KEY
              /\ made.id = n.id \o t
              /\ made.value = t
              /\ is_leaf(made)
              /\ NoFlags(made)]_vars

\* an optional minus sign in front, then decimal digits only
WellFormedNumber(str) ==
    \A k \in 1..Len(str) : is_ascii_digit(str[k]) \/ (k = 1 /\ str[k] = "-")

\* C25: the buffer of a Number prompt is at every moment an optional leading
\* minus sign followed by decimal digits only; a character that would break
\* this is rejected and leaves the prompt as it was; and every value the prompt
\* hands over to be pushed parses as an integer of the i32 range.
C25_NumberBuffer ==
    [][dialog'.input_type = "Number" =>
          /\ WellFormedNumber(dialog.input_str)
          /\ WellFormedNumber(dialog'.input_str)
          /\ (event'.code = "Char"
              /\ ~WellFormedNumber(Append(dialog.input_str, event'.c)))
                => dialog' = dialog
          /\ dialog'.status = "Ok(Some)" =>
                /\ is_some(parse_i32(dialog'.value))
                /\ unwrap(parse_i32(dialog'.value)) >= I32_MIN
                /\ unwrap(parse_i32(dialog'.value)) <= I32_MAX]_vars

C25_Witness ==
    /\ dialog.input_type = "Number"
    /\ event.code = "Enter"
    /\ dialog.status = "Ok(Some)"
    /\ dialog.value = <<"-", "9", "2">>

\* C26: cancelling the search dialog removes from the path its maximal suffix
\* of fleeting entries and nothing else: what is left is a prefix of the path
\* that is empty or ends in an entry that is not fleeting, every entry removed
\* is fleeting, a path that is empty or ends in an entry that is not fleeting
\* is left as it is, and the session stays pending with its result untouched.
C26_SearchCancel ==
    [][event'.code = "SearchCancel" =>
          /\ IsPrefix(path', path)
          /\ path' = << >> \/ ~Last(path').is_fleeting
          /\ \A k \in (Len(path') + 1)..Len(path) : path[k].is_fleeting
          /\ (path = << >> \/ ~Last(path).is_fleeting) => path' = path
          /\ outcome' = "pending"
          /\ result' = result]_vars

C26_Witness ==
    /\ event.code = "SearchCancel"
    /\ path = << >>
    /\ Len(search.options) = 1
    /\ search.options[1].id = <<"k", "q", "r">>
    /\ outcome = "pending"

\* C27: the search options of a list of roots hold exactly one entry per
\* proper descendant of those roots and none for the roots, in pre-order (a
\* node before what is below it, siblings in the order of the file); the
\* command of an entry is compose_command of the chain from the root down to
\* the descendant; a root without children gives no entry.
C27_Flatten ==
    event.code = "flatten" =>
        LET T == config.keys
            below == BelowAll(T, config.roots)
        IN  /\ Len(search.options) = Len(below)
            /\ \A k \in 1..Len(below) :
                  /\ search.options[k].id = T[below[k]].id
                  /\ search.options[k].command =
                        compose_command(At(T, Lineage(T, below[k])))
            /\ \A k \in 1..Len(below) :
                  \A r \in 1..Len(config.roots) : below[k] # config.roots[r]

C27_Witness ==
    /\ event.code = "flatten"
    /\ Len(search.options) = 3
    /\ search.options[1].command = <<"C">>
    /\ search.options[2].command = <<"C", " ", "E">>
    /\ search.options[3].command = <<"A", " ", "D">>

\* C28 as claimed: for the id of a node X of the loaded tree, rebuild_path
\* gives the complete chain from the top-level node down to X, each entry a
\* child of the one before it, and as loop index the index of the last loop
\* node of that chain.
C28_Original ==
    (event.code = "rebuild" /\ is_some(search.picked)) =>
        LET T == config.keys
            X == BelowAll(T, config.roots)[unwrap(search.picked) + 1]
        IN  /\ path = At(T, Lineage(T, X))
            /\ \A k \in 2..Len(path) :
                  \E j \in 1..Len(path[k - 1].keys) : T[path[k - 1].keys[j]] = path[k]
            /\ loop_node_index = DeepestLoop(path)

\* C29: is_leaf(n) holds exactly when n has no children, no choices and no
\* input request; so a key bound to a node with choices or with an input
\* request does not confirm the session: the session stays pending with the
\* dialog's answer pushed after the node.
C29_Leaf ==
    [][(event'.code = "Char" /\ is_some(Selected)) =>
          LET n == unwrap(Selected)
          IN  /\ is_leaf(n) <=>
                    (n.keys = << >> /\ n.choices = << >> /\ n.input_type = None)
              /\ (n.choices # << >> \/ n.input_type # None) =>
                    /\ ~is_leaf(n)
                    /\ outcome' = "pending"
                    /\ result' = result
                    /\ Len(path') = Len(path) + 2]_vars

C29_Witness ==
    /\ event.code = "Char"
    /\ event.c = "t"
    /\ event.typed = Some(<<"-", "v">>)
    /\ Len(path) = 4
    /\ path[3] = Tree[16]
    /\ Tree[16].keys = << >>
    /\ outcome = "pending"

\* C30 as claimed: the doctor warns about a node bound to '/' exactly when
\* some node of the loaded tree, at any depth, a top-level node without
\* children included, has the key '/'.
C30_Original ==
    outcome \in {"warned", "valid"} =>
        (outcome = "warned" <=>
            \E i \in 1..Len(config.keys) : config.keys[i].key = <<"/">>)

\* C31 as claimed: when search is opened from a path that is not empty, the
\* command listed for the entry picked equals compose_command of the path that
\* picking it installs.
C31_Original ==
    [][(event'.code = "Search" /\ path # << >>) =>
          search'.options[unwrap(search'.picked) + 1].command
              = compose_command(path')]_vars

\* where the loop stands between two events: the path and the loop index
Conf(p, index) == [path |-> p, loop_node_index |-> index]

\* where the loop stands after the key of node was pressed at conf, for every
\* answer its dialog may get; nothing when the key confirms the session
AfterKey(conf, node) ==
    LET pushed == Append(conf.path, node)
        new_loop == IF node.is_loop THEN Some(Len(pushed) - 1)
                    ELSE conf.loop_node_index
    IN  IF is_leaf(node)
        THEN IF is_some(new_loop) THEN {Conf(pushed, new_loop)} ELSE {}
        ELSE IF has_choices(node)
        THEN {Conf(Append(pushed, with_selection(node, selection)), new_loop) :
                 selection \in 0..(Len(node.choices) - 1)}
        ELSE IF is_some(node.input_type)
        THEN IF unwrap(node.input_type) = "Text"
             THEN {Conf(Append(pushed, with_input(node, input)), new_loop) :
                      input \in TextInputs}
             ELSE {Conf(Append(pushed,
                               with_input(node, I32ToString(unwrap(parse_i32(text))))),
                        new_loop) : text \in NumberTexts}
        ELSE {Conf(pushed, new_loop)}

\* the nodes a character key pushes at conf
Offered(conf) ==
    IF Len(conf.path) + 2 <= MaxPath
    THEN LET nodes == menu(conf.path, conf.loop_node_index)
         IN  {unwrap(find(nodes, c)) : c \in {d \in Chars : is_some(find(nodes, d))}}
    ELSE {}

\* everywhere character keys alone lead from the configurations in S
RECURSIVE KeyClosure(_)
KeyClosure(S) ==
    LET T == S \cup UNION {UNION {AfterKey(conf, node) : node \in Offered(conf)} :
                              conf \in S}
    IN  IF T = S THEN S ELSE KeyClosure(T)

\* the nodes that some sequence of character keys pushes, starting at conf
KeyPushed(conf) == UNION {Offered(x) : x \in KeyClosure({conf})}

\* C32 as claimed: from the empty path, every node of the tree is pushed by
\* some sequence of character keys (with the dialogs on the way answered).
C32_Original ==
    (path = << >> /\ loop_node_index = None /\ outcome = "pending") =>
        \A i \in 1..Len(Tree) : Tree[i] \in KeyPushed(Conf(path, loop_node_index))

\* C33 as claimed: while the session is pending, after any key presses and
\* Backspaces, the loop index is set exactly when the path holds a loop node,
\* and is then the index of the last loop node of the path.
C33_Original ==
    outcome = "pending" => loop_node_index = DeepestLoop(path)

\* C34 as claimed: in every tree that loaded, no two distinct nodes have the
\* same id.
C34_Original ==
    config.status = "Ok" =>
        \A i, j \in 1..Len(config.keys) :
            i # j => config.keys[i].id # config.keys[j].id

\* C35 as claimed: a search result picked from a path that is not empty leaves
\* the path from before the search as a prefix of the new path.
C35_Original ==
    [][(event'.code = "Search" /\ path # << >>) => IsPrefix(path, path')]_vars

\* p is the nodes from a top-level node down to some node of the tree
IsChain(p) == \E i \in 1..Len(Tree) : p = Chain(i)

\* C35, amended: a search result picked from a path that is not empty
\* replaces the path; the path from before the search is a prefix of the new
\* path exactly when it was itself the chain from a top-level node down to
\* its last entry (no leaf collected under a loop and no synthesized node on
\* it).
C35_Replaces ==
    [][(event'.code = "Search" /\ path # << >>) =>
          /\ IsChain(path')
          /\ IsPrefix(path, path') <=> IsChain(path)]_vars

\* the search opened at g, f (three entries) and m picked
C35_Witness ==
    /\ event.code = "Search"
    /\ Len(search.options) = 3
    /\ search.picked = Some(0)
    /\ path = <<Tree[1], Tree[14], Tree[15]>>

\* C36 as claimed: whenever the loop awaits the next event, the last entry of
\* the path is not a node with choices or with an input request.
C36_Original ==
    (outcome = "pending" /\ Len(path) > 0) =>
        ~(has_choices(Last(path)) \/ is_some(Last(path).input_type))

\* the node was synthesized from the answer of a choice or input dialog
Synthesized(n) == n.key = CHOICE_KEY \/ n.key = INPUT_KEY

\* C37: a session confirmed with a synthesized choice or input result as the
\* last path entry hands back the command as composed, without the immediate
\* prefix, even when the tag was asked for and the node that opened the dialog
\* is immediate.
C37_NoTag ==
    (outcome = "confirmed" /\ Synthesized(Last(path))) =>
        /\ result = ComposeOf(path)
        /\ ~IsPrefix(IMMEDIATE_PREFIX, result)

\* g, o, the choice y, Enter: o is immediate and the tag was asked for
C37_Witness ==
    /\ outcome = "confirmed"
    /\ opts.print_immediate_tag
    /\ Len(path) = 3
    /\ path[2] = Tree[4]
    /\ path[2].is_immediate
    /\ path[3].key = CHOICE_KEY
    /\ result = GIT \o SPACE \o Tree[4].value \o SPACE \o path[3].value

\* C38 as claimed: after any character, Backspace, Up and Down events the
\* dialog is still open or has returned; Enter returns None exactly when no
\* item matches the query, and otherwise the index, in the list the dialog
\* was opened on, of the item highlighted; the highlighted position lies in
\* the list of matches when that list is not empty; Esc returns None.
C38_Original ==
    LET matched_items == filter_items(dialog.items, dialog.query)
    IN  /\ dialog.status \in {"open", "Ok(None)", "Ok(Some)"}
        /\ Len(matched_items) > 0 => dialog.selected_index < Len(matched_items)
        /\ event.code = "Esc" => dialog.status = "Ok(None)"
        /\ event.code = "Enter" =>
              /\ dialog.status = "Ok(None)" <=> Len(matched_items) = 0
              /\ dialog.status = "Ok(Some)" =>
                    /\ unwrap(dialog.value) < Len(dialog.items)
                    /\ dialog.items[unwrap(dialog.value) + 1]
                          = matched_items[dialog.selected_index + 1].text

\* the calls are made in turn, none twice in a row
Alternates(calls) == \A k \in 2..Len(calls) : calls[k] # calls[k - 1]

\* C39 as claimed: the calls of setup and teardown alternate, setup first:
\* the loop starts after a setup, the calls made for an event start with a
\* teardown and alternate, they end with a setup when the loop goes on and
\* with a teardown when the session ends, however it ends.
C39_Original ==
    /\ event.code = "None" => event.terminal = <<SETUP>>
    /\ event.code # "None" =>
          /\ Alternates(event.terminal)
          /\ event.terminal # << >> => event.terminal[1] = TEARDOWN
          /\ (outcome = "pending" /\ event.terminal # << >>) =>
                Last(event.terminal) = SETUP
          /\ outcome # "pending" =>
                (event.terminal # << >> /\ Last(event.terminal) = TEARDOWN)

====
